---- MODULE Spec2Model ----
(***************************************************************************)
(* Court booking automation: the schedule extraction and slot selection of *)
(* smart_court_booking.py and the step sequence of                         *)
(* github_actions_court_booking.py.                                        *)
(*                                                                         *)
(* Strings are modelled by their content.  A time string "5:00 PM" is the  *)
(* record [h |-> 5, m |-> 0, ap |-> "PM"]; a text is the sequence of the   *)
(* time strings it holds, separated by " - ": <<t>> is a plain time,       *)
(* <<t1, t2>> the range "t1 - t2", << >> the empty string.  A point in     *)
(* time (a datetime of 1900-01-01) is its number of minutes after          *)
(* midnight.                                                               *)
(***************************************************************************)
EXTENDS Integers, Sequences, FiniteSets, TLC

VARIABLES
    pc,               \* position of the running function
    page,             \* what the browser shows: header cells, bookings, buttons
    schedule,         \* the list of court_data built by extract_schedule
    target_time_str,  \* the requested time
    best,             \* (best_court, best_duration, best_button)
    printed,          \* per court, the minutes find_best_court printed
    env,              \* ESC_USERNAME and ESC_PASSWORD
    today,            \* the day of datetime.now(), counted in days
    target_date_str,  \* the requested date
    duration_minutes, \* the requested duration
    browser,          \* the driver: started, quit, day shown, clicks made
    book,             \* the locals of book_court
    form,             \* the booking form as the browser shows it
    ret,              \* what smart_book_court or run returned
    booker,           \* the fields of a GitHubActionsCourtBooker
    steps,            \* the methods run has called, with their results
    page_source,      \* the page verify_booking read after its refresh
    program,          \* the script that runs
    args,             \* its command line, and ESC_ADDITIONAL_PLAYER
    exit_code         \* the exit code of the process, None while it runs

\* the inputs and the state of smart_book_court around the schedule
flow == <<env, today, target_date_str, duration_minutes, browser, book, form, ret>>

\* the state of GitHubActionsCourtBooker.run
ga == <<booker, steps, page_source>>

\* the process around the booking function
proc == <<program, args, exit_code>>

vars == <<pc, page, schedule, target_time_str, best, printed, flow, ga, proc>>

\* None; a parsed time is never negative
None == -1

\* ------------------------------------------------------------------ bounds
\* slots (bookings and buttons) in one court column
MaxSlots == 3
\* reservation containers on a page, and Reserve buttons on a page, whose
\* position is not tied to a column
MaxElements == 2
\* days ahead a date string of digits asks for
MaxDaysAhead == 2

\* ------------------------------------------------------------- parse_time
T(h, m, ap) == [h |-> h, m |-> m, ap |-> ap]

\* replace('.', '') and upper() on the AM/PM part of the string
Meridiem(ap) ==
    CASE ap \in {"AM", "am", "a.m.", "A.M."} -> "AM"
      [] ap \in {"PM", "pm", "p.m.", "P.M."} -> "PM"
      [] OTHER -> ap

\* datetime.strptime(s, '%I:%M %p'): %I is 1..12, %M is 0..59, %p is AM/PM;
\* 12 AM is hour 0, 12 PM is hour 12, other PM hours add 12
Strptime(t) ==
    IF t.h \in 1..12 /\ t.m \in 0..59 /\ t.ap \in {"AM", "PM"}
    THEN (IF t.ap = "PM" THEN (IF t.h = 12 THEN 12 ELSE t.h + 12)
                          ELSE (IF t.h = 12 THEN 0 ELSE t.h)) * 60 + t.m
    ELSE None

\* parse_time: a text that is one time string parses, anything else is None
parse_time(text) ==
    IF Len(text) = 1
    THEN Strptime([text[1] EXCEPT !.ap = Meridiem(text[1].ap)])
    ELSE None

\* parse_time_range: "a - b" gives (parse_time(a), parse_time(b))
parse_time_range(text) ==
    IF Len(text) >= 2
    THEN IF Len(text) = 2
         THEN <<parse_time(<<text[1]>>), parse_time(<<text[2]>>)>>
         ELSE <<None, None>>
    ELSE <<None, None>>

\* -------------------------------------------------------- find_best_court
\* one slot of a court: the timeline entry it gives, << >> when it is dropped
TimelineEntry(slot) ==
    IF slot.status = "available"
    THEN LET slot_time == parse_time(slot.time) IN
         IF slot_time # None
         THEN <<[start |-> slot_time, end |-> slot_time + 30,
                 available |-> TRUE, button |-> slot.button]>>
         ELSE << >>
    ELSE IF slot.status = "booked"
    THEN LET r == parse_time_range(slot.time) IN
         IF r[1] # None /\ r[2] # None
         THEN <<[start |-> r[1], end |-> r[2], available |-> FALSE, button |-> 0]>>
         ELSE << >>
    ELSE << >>

RECURSIVE BuildTimeline(_)
BuildTimeline(slots) ==
    IF slots = << >> THEN << >>
    ELSE TimelineEntry(Head(slots)) \o BuildTimeline(Tail(slots))

\* list.sort(key=start): stable, an entry goes after the entries that do not
\* start later
RECURSIVE InsertByStart(_, _)
InsertByStart(sorted, e) ==
    IF sorted = << >> THEN <<e>>
    ELSE IF Head(sorted).start <= e.start
         THEN <<Head(sorted)>> \o InsertByStart(Tail(sorted), e)
         ELSE <<e>> \o sorted

RECURSIVE SortTimeline(_)
SortTimeline(tl) ==
    IF tl = << >> THEN << >>
    ELSE InsertByStart(SortTimeline(SubSeq(tl, 1, Len(tl) - 1)), tl[Len(tl)])

\* LookAhead that counts every available slot after the current end, adjacent
\* or not
RECURSIVE LookAheadAcrossGaps(_, _, _, _)
LookAheadAcrossGaps(timeline, i, duration, current_end) ==
    IF i > Len(timeline) THEN duration
    ELSE IF timeline[i].available /\ timeline[i].start >= current_end
         THEN LookAheadAcrossGaps(timeline, i + 1, duration + 30, timeline[i].end)
         ELSE IF timeline[i].start >= current_end
              THEN duration
              ELSE LookAheadAcrossGaps(timeline, i + 1, duration, current_end)

\* the look-ahead loop over the whole timeline
RECURSIVE LookAhead(_, _, _, _)
LookAhead(timeline, i, duration, current_end) ==
    IF i > Len(timeline) THEN duration
    ELSE IF timeline[i].available /\ timeline[i].start = current_end
         THEN LookAhead(timeline, i + 1, duration + 30, timeline[i].end)
         ELSE IF timeline[i].start >= current_end
              THEN duration
              ELSE LookAhead(timeline, i + 1, duration, current_end)

\* CheckTarget that takes the end of a slot as part of it
RECURSIVE CheckTargetEndInclusive(_, _, _)
CheckTargetEndInclusive(timeline, target_time, i) ==
    IF i > Len(timeline)
    THEN [found |-> FALSE, duration |-> 0, button |-> 0]
    ELSE IF timeline[i].start <= target_time /\ target_time <= timeline[i].end
            /\ timeline[i].available
         THEN [found |-> TRUE,
               duration |-> LookAhead(timeline, 1, timeline[i].end - target_time,
                                      timeline[i].end),
               button |-> timeline[i].button]
         ELSE CheckTargetEndInclusive(timeline, target_time, i + 1)

\* the loop that looks for the slot holding the target time: the first
\* available entry with start <= target < end decides the court
RECURSIVE CheckTarget(_, _, _)
CheckTarget(timeline, target_time, i) ==
    IF i > Len(timeline)
    THEN [found |-> FALSE, duration |-> 0, button |-> 0]
    ELSE IF timeline[i].start <= target_time /\ target_time < timeline[i].end
            /\ timeline[i].available
         THEN [found |-> TRUE,
               duration |-> LookAhead(timeline, 1, timeline[i].end - target_time,
                                      timeline[i].end),
               button |-> timeline[i].button]
         ELSE CheckTarget(timeline, target_time, i + 1)

CourtCheck(court, target_time) ==
    CheckTarget(SortTimeline(BuildTimeline(court.slots)), target_time, 1)

\* BestOver that keeps the first court found instead of the longest
RECURSIVE BestOverFirstFound(_, _, _, _)
BestOverFirstFound(sched, target_time, i, acc) ==
    IF i > Len(sched) THEN acc
    ELSE IF ~sched[i].is_singles THEN BestOverFirstFound(sched, target_time, i + 1, acc)
    ELSE LET c == CourtCheck(sched[i], target_time) IN
         IF c.found /\ acc.court = 0
         THEN BestOverFirstFound(sched, target_time, i + 1,
                       [court |-> i, duration |-> c.duration, button |-> c.button])
         ELSE BestOverFirstFound(sched, target_time, i + 1, acc)

\* the loop over the courts, for the singles courts only; court 0 is None
RECURSIVE BestOver(_, _, _, _)
BestOver(sched, target_time, i, acc) ==
    IF i > Len(sched) THEN acc
    ELSE IF ~sched[i].is_singles THEN BestOver(sched, target_time, i + 1, acc)
    ELSE LET c == CourtCheck(sched[i], target_time) IN
         IF c.found /\ c.duration > acc.duration
         THEN BestOver(sched, target_time, i + 1,
                       [court |-> i, duration |-> c.duration, button |-> c.button])
         ELSE BestOver(sched, target_time, i + 1, acc)

NoCourt == [court |-> 0, duration |-> 0, button |-> 0]

find_best_court(sched, time_str) ==
    LET target_time == parse_time(time_str) IN
    IF target_time = None THEN NoCourt
    ELSE BestOver(sched, target_time, 1, NoCourt)

\* the "<court>: <n> minutes available" lines: 0 for a court that prints none
PrintedDurations(sched, time_str) ==
    LET target_time == parse_time(time_str) IN
    [i \in 1..Len(sched) |->
        IF target_time # None /\ sched[i].is_singles
        THEN CourtCheck(sched[i], target_time).duration
        ELSE 0]

\* ----------------------------------------------------- state outside a run
NoBrowser == [started |-> FALSE, quit |-> FALSE, day |-> 0, clicked |-> << >>,
              saves |-> 0]

NoBook == [duration_minutes |-> 0, booking_date |-> 0, reservation_type |-> "",
           needs_additional_player |-> FALSE, reservation_selected |-> FALSE,
           target_duration |-> ""]

NoForm == [open |-> FALSE, type_shown |-> "", duration |-> "", player |-> FALSE]

NoBooker == [booking_time |-> << >>, additional_player |-> "", days_ahead |-> 0]

NoSource == [names |-> {}, times |-> << >>, types |-> {}, court_words |-> FALSE]

\* an option that is not given, a variable that is not set
NoArg == "<None>"

\* --time, --player, --no-player and --days-ahead; ESC_ADDITIONAL_PLAYER
NoArgs == [time |-> << >>, player |-> NoArg, no_player |-> FALSE,
           env_player |-> NoArg, days_ahead |-> 0]

\* the command line is not parsed yet and the process has not exited
Started(script) ==
    /\ program = script
    /\ args = NoArgs
    /\ exit_code = None

\* no GitHubActionsCourtBooker exists
NoRun ==
    /\ booker = NoBooker
    /\ steps = << >>
    /\ page_source = NoSource

\* a function on its own: no smart_book_court around it
Idle ==
    /\ env = [username |-> "", password |-> ""]
    /\ today = 0
    /\ target_date_str = [kind |-> "today", n |-> 0]
    /\ duration_minutes = 0
    /\ browser = NoBrowser
    /\ book = NoBook
    /\ form = NoForm
    /\ ret = "none"
    /\ NoRun
    /\ Started("smart_court_booking")

\* ------------------------------------------------------- the schedule grid
\* no page loaded
NoPage == [ths |-> << >>, booking_divs |-> << >>, reserve_buttons |-> << >>]

\* th.text of a court column; Contains is the substring test on it
Contains(name, word) ==
    CASE name.label = "Court # Singles" -> word \in {"Court", "Singles"}
      [] name.label = "Court # Doubles" -> word \in {"Court", "Doubles"}
      [] name.label = "Court # Singles/Doubles" -> word \in {"Court", "Singles", "Doubles"}
      [] OTHER -> FALSE

\* IsSingles that does not look for 'Doubles'
IsSinglesAnySingles(name) == Contains(name, "Singles")

\* 'is_singles': 'Singles' in court_name and 'Doubles' not in court_name
IsSingles(name) == Contains(name, "Singles") /\ ~Contains(name, "Doubles")

CourtLabels == {"Court # Singles", "Court # Doubles", "Court # Singles/Doubles"}

\* the times on the Reserve buttons of a column, in document order
ButtonTimes ==
    << <<T(12, 30, "PM")>>, <<T(11, 30, "AM")>>, <<T(1, 0, "PM")>>, <<T(12, 0, "PM")>> >>

\* the time lines of the reservation containers of a column
BookingTimes ==
    << <<T(12, 30, "p.m."), T(1, 15, "p.m.")>>, <<T(12, 0, "p.m."), T(12, 30, "p.m.")>> >>

\* the requested times: on a slot boundary, inside a slot, and "13:00"
TargetTimes ==
    { <<T(11, 30, "AM")>>, <<T(11, 45, "AM")>>, <<T(12, 0, "PM")>>,
      <<T(12, 15, "p.m.")>>, <<T(12, 30, "pm")>>, <<T(13, 0, "")>> }

\* the slots of column c that holds the bookings B and the buttons A (index
\* sets), as extract_schedule lists them: bookings first, then buttons
RECURSIVE BookedSlots(_, _)
BookedSlots(B, i) ==
    IF i > Len(BookingTimes) THEN << >>
    ELSE (IF i \in B
          THEN <<[status |-> "booked", type |-> i, time |-> BookingTimes[i],
                  button |-> 0]>>
          ELSE << >>) \o BookedSlots(B, i + 1)

RECURSIVE AvailableSlots(_, _, _)
AvailableSlots(c, A, i) ==
    IF i > Len(ButtonTimes) THEN << >>
    ELSE (IF i \in A
          THEN <<[status |-> "available", type |-> 0, time |-> ButtonTimes[i],
                  button |-> 10 * c + i]>>
          ELSE << >>) \o AvailableSlots(c, A, i + 1)

ColumnContents ==
    { ba \in (SUBSET (1..Len(BookingTimes))) \X (SUBSET (1..Len(ButtonTimes))) :
        Cardinality(ba[1]) + Cardinality(ba[2]) <= MaxSlots }

CourtData(c, label, ba) ==
    [name |-> [num |-> c, label |-> label],
     column_index |-> c,
     is_singles |-> IsSingles([num |-> c, label |-> label]),
     slots |-> BookedSlots(ba[1], 1) \o AvailableSlots(c, ba[2], 1)]

\* -------------------------------------------------------- extract_schedule
\* court_names: the header cells after the first whose text holds "Court";
\* ths[1] is the cell above the time column (index 0 in the code)
RECURSIVE CourtNames(_, _)
CourtNames(ths, k) ==
    IF k > Len(ths) THEN << >>
    ELSE (IF Contains(ths[k].text, "Court")
          THEN <<[column_index |-> k - 1,
                  name |-> ths[k].text,
                  is_singles |-> IsSingles(ths[k].text)]>>
          ELSE << >>) \o CourtNames(ths, k + 1)

\* header_positions is a dict keyed by the court name: of two headers with
\* one name the later one stays
RECURSIVE HeaderPositions(_, _, _)
HeaderPositions(ths, court_names, name) ==
    IF court_names = << >> THEN [x_start |-> None, x_end |-> None]
    ELSE LET last == court_names[Len(court_names)] IN
         IF last.name = name
         THEN [x_start |-> ths[last.column_index + 1].x,
               x_end |-> ths[last.column_index + 1].x + ths[last.column_index + 1].width]
         ELSE HeaderPositions(ths, SubSeq(court_names, 1, Len(court_names) - 1), name)

\* InColumn that compares the left edge of the element
InColumnByLeftEdge(el, court_pos) ==
    /\ court_pos.x_start <= el.x
    /\ el.x <= court_pos.x_end

\* court_pos['x_start'] <= loc['x'] + size['width'] / 2 <= court_pos['x_end'],
\* with both sides doubled
InColumn(el, court_pos) ==
    /\ 2 * court_pos.x_start <= 2 * el.x + el.width
    /\ 2 * el.x + el.width <= 2 * court_pos.x_end

\* the bookings of one court: the containers in its column that have text
RECURSIVE CourtBookings(_, _)
CourtBookings(divs, court_pos) ==
    IF divs = << >> THEN << >>
    ELSE (IF InColumn(Head(divs), court_pos) /\ Head(divs).has_text
          THEN <<[status |-> "booked", type |-> Head(divs).type,
                  time |-> Head(divs).time, button |-> 0]>>
          ELSE << >>) \o CourtBookings(Tail(divs), court_pos)

\* the available slots of one court: the displayed buttons in its column,
\* the time being the button text without 'Reserve'
RECURSIVE CourtButtons(_, _)
CourtButtons(buttons, court_pos) ==
    IF buttons = << >> THEN << >>
    ELSE (IF Head(buttons).displayed /\ InColumn(Head(buttons), court_pos)
          THEN <<[status |-> "available", type |-> 0,
                  time |-> Head(buttons).time, button |-> Head(buttons).id]>>
          ELSE << >>) \o CourtButtons(Tail(buttons), court_pos)

RECURSIVE BuildSchedule(_, _, _)
BuildSchedule(pg, court_names, k) ==
    IF k > Len(court_names) THEN << >>
    ELSE LET court_pos == HeaderPositions(pg.ths, court_names, court_names[k].name) IN
         (IF court_pos.x_start = None
          THEN << >>
          ELSE <<[name |-> court_names[k].name,
                  column_index |-> court_names[k].column_index,
                  is_singles |-> court_names[k].is_singles,
                  slots |-> CourtBookings(pg.booking_divs, court_pos)
                            \o CourtButtons(pg.reserve_buttons, court_pos)]>>)
         \o BuildSchedule(pg, court_names, k + 1)

extract_schedule(pg) == BuildSchedule(pg, CourtNames(pg.ths, 2), 1)

\* ---------------------------------------------- find_best_court on its own
InitFind ==
    /\ pc = "find_best_court"
    /\ page = NoPage
    /\ \E l1 \in CourtLabels, l2 \in CourtLabels, c1 \in ColumnContents, c2 \in ColumnContents :
          schedule = <<CourtData(1, l1, c1), CourtData(2, l2, c2)>>
    /\ target_time_str \in TargetTimes
    /\ best = NoCourt
    /\ printed = <<0, 0>>
    /\ Idle

FindBestCourt ==
    /\ pc = "find_best_court"
    /\ best' = find_best_court(schedule, target_time_str)
    /\ printed' = PrintedDurations(schedule, target_time_str)
    /\ pc' = "best_found"
    /\ UNCHANGED <<page, schedule, target_time_str, flow, ga, proc>>

NextFind == FindBestCourt

SpecFind == InitFind /\ [][NextFind]_vars

\* ---------------------------------------------- extract_schedule on its own
\* the cell above the time column
TimeHeader == [text |-> [num |-> 0, label |-> "Time"], x |-> 0, width |-> 10]

\* header texts: the court labels and one that is no court
HeaderLabels == CourtLabels \cup {"Lounge"}

\* the header row: the first column at 10..20, the second next to it at
\* 20..30 or apart at 22..32; the second header may repeat the first one's text
HeaderRows ==
    { r \in { <<TimeHeader,
                [text |-> [num |-> 1, label |-> l1], x |-> 10, width |-> 10],
                [text |-> n2, x |-> x2, width |-> 10]>> :
                l1 \in HeaderLabels, x2 \in {20, 22},
                n2 \in [num : {1, 2}, label : HeaderLabels] } :
        r[3].text.num = 2 \/ r[3].text = r[2].text }

\* where an element may sit: centre 15, 20, 20.5 and 44
Boxes ==
    << [x |-> 11, width |-> 8], [x |-> 16, width |-> 8],
       [x |-> 16, width |-> 9], [x |-> 40, width |-> 8] >>

\* reservation containers: with their two lines of text, or without text
BookingDivs ==
    [k \in 1..(2 * Len(Boxes)) |->
        [x |-> Boxes[((k - 1) % Len(Boxes)) + 1].x,
         width |-> Boxes[((k - 1) % Len(Boxes)) + 1].width,
         has_text |-> k <= Len(Boxes),
         type |-> IF k <= Len(Boxes) THEN k ELSE 0,
         time |-> IF k <= Len(Boxes) THEN BookingTimes[1] ELSE << >>,
         id |-> k]]

\* Reserve buttons: displayed or not
ReserveButtons ==
    [k \in 1..(2 * Len(Boxes)) |->
        [x |-> Boxes[((k - 1) % Len(Boxes)) + 1].x,
         width |-> Boxes[((k - 1) % Len(Boxes)) + 1].width,
         displayed |-> k <= Len(Boxes),
         time |-> ButtonTimes[1],
         id |-> 100 + k]]

\* the elements of `universe` whose index is in S, in document order
RECURSIVE Elements(_, _, _)
Elements(universe, S, k) ==
    IF k > Len(universe) THEN << >>
    ELSE (IF k \in S THEN <<universe[k]>> ELSE << >>) \o Elements(universe, S, k + 1)

ElementChoices(universe) ==
    { S \in SUBSET (1..Len(universe)) : Cardinality(S) <= MaxElements }

InitExtract ==
    /\ pc = "extract_schedule"
    /\ \E ths \in HeaderRows,
          B \in ElementChoices(BookingDivs), R \in ElementChoices(ReserveButtons) :
          page = [ths |-> ths,
                  booking_divs |-> Elements(BookingDivs, B, 1),
                  reserve_buttons |-> Elements(ReserveButtons, R, 1)]
    /\ schedule = << >>
    /\ target_time_str = << >>
    /\ best = NoCourt
    /\ printed = << >>
    /\ Idle

ExtractSchedule ==
    /\ pc = "extract_schedule"
    /\ schedule' = extract_schedule(page)
    /\ pc' = "find_best_court"
    /\ UNCHANGED <<page, target_time_str, best, printed, flow, ga, proc>>

NextExtract == ExtractSchedule

SpecExtract == InitExtract /\ [][NextExtract]_vars

\* -------------------------------------------------------------- book_court
\* datetime.weekday(): 0 is Monday, 6 is Sunday; day 0 is a Monday
Weekday(day) == day % 7

\* the date book_court books for: 'tomorrow', 'today', a '%Y-%m-%d' string,
\* and datetime.now() for any other string
BookingDate(date_str, now) ==
    IF date_str.kind = "tomorrow" THEN now + 1
    ELSE IF date_str.kind = "today" THEN now
    ELSE IF date_str.kind = "iso" THEN date_str.n
    ELSE now

\* Singles on a weekend from 10:30 AM to 3:00 PM and on a weekday from
\* 4:30 PM to 9:00 PM, Solo Practice at any other time and for a time that
\* does not parse
ReservationType(booking_date, time_str) ==
    LET is_weekend == Weekday(booking_date) >= 5
        booking_time == parse_time(time_str)
    IN  IF booking_time = None THEN "solo practice"
        ELSE IF is_weekend
             THEN (IF 10 * 60 + 30 <= booking_time /\ booking_time < 15 * 60
                   THEN "singles" ELSE "solo practice")
             ELSE (IF 16 * 60 + 30 <= booking_time /\ booking_time < 21 * 60
                   THEN "singles" ELSE "solo practice")

\* the option of the Duration dropdown asked for
TargetDuration(minutes) ==
    IF minutes >= 60 THEN "hour"
    ELSE IF minutes >= 45 THEN "45"
    ELSE "30"

Min(a, b) == IF a <= b THEN a ELSE b

\* what a displayed dropdown may show after the selection script ran
DropdownTexts == {"singles", "solo practice", "reservation type"}

\* book_court returns: smart_book_court returns the same and quits the driver
Return(value) ==
    /\ ret' = value
    /\ pc' = "done"

\* the Reserve button is clicked and the form awaited; a click that raises
\* and a form that does not appear end book_court with False
BookCourt_ClickReserve ==
    /\ pc = "book_court"
    /\ book' = [book EXCEPT
          !.booking_date = BookingDate(target_date_str, today),
          !.reservation_type =
              ReservationType(BookingDate(target_date_str, today), target_time_str),
          !.needs_additional_player =
              (ReservationType(BookingDate(target_date_str, today), target_time_str)
                  = "singles")]
    /\ \E outcome \in {"click raises", "no form", "form"} :
          /\ browser' = [browser EXCEPT
                !.clicked = IF outcome = "click raises" THEN @
                            ELSE Append(@, best.button),
                !.quit = (outcome # "form")]
          /\ form' = [form EXCEPT !.open = (outcome = "form")]
          /\ IF outcome = "form"
             THEN pc' = "select_type" /\ ret' = ret
             ELSE Return(FALSE)
    /\ UNCHANGED <<page, schedule, target_time_str, best, printed, env, today,
                   target_date_str, duration_minutes, ga, proc>>

BookCourt_SelectTypeUnverified ==
    /\ pc = "select_type"
    /\ \E shown \in DropdownTexts :
          /\ form' = [form EXCEPT !.type_shown = shown]
          /\ book' = [book EXCEPT !.reservation_selected = (shown = book.reservation_type)]
          /\ pc' = "fill_form" /\ ret' = ret /\ browser' = browser
    /\ UNCHANGED <<page, schedule, target_time_str, best, printed, env, today,
                   target_date_str, duration_minutes, ga, proc>>

\* the reservation type is selected by a script and then read back from the
\* displayed dropdowns; book_court returns False when none shows it
BookCourt_SelectType ==
    /\ pc = "select_type"
    /\ \E shown \in DropdownTexts :
          /\ form' = [form EXCEPT !.type_shown = shown]
          /\ book' = [book EXCEPT !.reservation_selected = (shown = book.reservation_type)]
          /\ IF shown = book.reservation_type
             THEN pc' = "fill_form" /\ ret' = ret /\ browser' = browser
             ELSE Return(FALSE) /\ browser' = [browser EXCEPT !.quit = TRUE]
    /\ UNCHANGED <<page, schedule, target_time_str, best, printed, env, today,
                   target_date_str, duration_minutes, ga, proc>>

\* the duration is selected by a script whose effect is not read back; the
\* additional player is typed when needed and the input is found
BookCourt_FillForm ==
    /\ pc = "fill_form"
    /\ book' = [book EXCEPT !.target_duration = TargetDuration(book.duration_minutes)]
    /\ \E applied \in BOOLEAN, input_found \in BOOLEAN :
          form' = [form EXCEPT
              !.duration = IF applied THEN TargetDuration(book.duration_minutes)
                           ELSE "30",
              !.player = book.needs_additional_player /\ input_found]
    /\ pc' = "submit"
    /\ UNCHANGED <<page, schedule, target_time_str, best, printed, env, today,
                   target_date_str, duration_minutes, browser, ret, ga, proc>>

\* Save: not found (raises) or not displayed and enabled gives False; after
\* the click True when no modal is displayed or no displayed modal shows
\* 'error' or 'required', False otherwise
BookCourt_Submit ==
    /\ pc = "submit"
    /\ \E outcome \in {"no save button", "save not available", "modal closed",
                       "modal shows error", "modal open"} :
          /\ browser' = [browser EXCEPT
                !.saves = IF outcome \in {"no save button", "save not available"}
                          THEN @ ELSE @ + 1,
                !.quit = TRUE]
          /\ form' = [form EXCEPT !.open = (outcome # "modal closed")]
          /\ Return(outcome \in {"modal closed", "modal open"})
    /\ UNCHANGED <<page, schedule, target_time_str, best, printed, env, today,
                   target_date_str, duration_minutes, book, ga, proc>>

\* -------------------------------------------------------- smart_book_court
\* the pages of a day: two court columns, apart, with their slots
FlowColumns == { <<{}, {}>>, <<{}, {4}>>, <<{}, {1, 4}>>, <<{2}, {1}>> }

ColumnBox(c) == IF c = 1 THEN [x |-> 11, width |-> 8] ELSE [x |-> 23, width |-> 8]

RECURSIVE ColumnDivs(_, _, _)
ColumnDivs(c, B, i) ==
    IF i > Len(BookingTimes) THEN << >>
    ELSE (IF i \in B
          THEN <<[x |-> ColumnBox(c).x, width |-> ColumnBox(c).width, has_text |-> TRUE,
                  type |-> 10 * c + i, time |-> BookingTimes[i], id |-> 10 * c + i]>>
          ELSE << >>) \o ColumnDivs(c, B, i + 1)

RECURSIVE ColumnButtons(_, _, _)
ColumnButtons(c, A, i) ==
    IF i > Len(ButtonTimes) THEN << >>
    ELSE (IF i \in A
          THEN <<[x |-> ColumnBox(c).x, width |-> ColumnBox(c).width, displayed |-> TRUE,
                  time |-> ButtonTimes[i], id |-> 10 * c + i]>>
          ELSE << >>) \o ColumnButtons(c, A, i + 1)

FlowPages ==
    { [ths |-> <<[text |-> [num |-> 0, label |-> "Time"], x |-> 0, width |-> 10],
                 [text |-> [num |-> 1, label |-> l1], x |-> 10, width |-> 10],
                 [text |-> [num |-> 2, label |-> l2], x |-> 22, width |-> 10]>>,
       booking_divs |-> ColumnDivs(1, c1[1], 1) \o ColumnDivs(2, c2[1], 1),
       reserve_buttons |-> ColumnButtons(1, c1[2], 1) \o ColumnButtons(2, c2[2], 1)] :
        l1 \in {"Court # Singles", "Court # Singles/Doubles"},
        l2 \in {"Court # Singles", "Court # Doubles"},
        c1 \in FlowColumns, c2 \in FlowColumns }

\* the dates asked for: 'today', 'tomorrow', a number of days ahead, and the
\* dates 'YYYY-MM-DD' of a Saturday and of the Tuesday after it
DateStrings ==
    {[kind |-> "today", n |-> 0], [kind |-> "tomorrow", n |-> 0],
     [kind |-> "iso", n |-> 5], [kind |-> "iso", n |-> 8]}
    \cup [kind : {"digits"}, n : 1..MaxDaysAhead]

Init ==
    /\ pc = "smart_book_court"
    /\ env \in {[username |-> "member", password |-> "secret"],
                [username |-> "", password |-> "secret"],
                [username |-> "member", password |-> ""]}
    /\ today \in 4..6
    /\ target_date_str \in DateStrings
    /\ target_time_str \in {<<T(12, 0, "PM")>>, <<T(12, 15, "PM")>>, <<T(13, 0, "")>>}
    /\ duration_minutes \in {30, 45, 60}
    /\ page = NoPage
    /\ schedule = << >>
    /\ best = NoCourt
    /\ printed = << >>
    /\ browser = NoBrowser
    /\ book = NoBook
    /\ form = NoForm
    /\ ret = "none"
    /\ NoRun
    /\ Started("smart_court_booking")

CheckCredentialsUsernameOnly ==
    /\ pc = "smart_book_court"
    /\ IF env.username = ""
       THEN Return(FALSE) /\ browser' = browser
       ELSE /\ browser' = [browser EXCEPT !.started = TRUE]
            /\ pc' = "login"
            /\ ret' = ret
    /\ UNCHANGED <<page, schedule, target_time_str, best, printed, env, today,
                   target_date_str, duration_minutes, book, form, ga, proc>>

\* without credentials smart_book_court returns False before a driver exists
CheckCredentials ==
    /\ pc = "smart_book_court"
    /\ IF env.username = "" \/ env.password = ""
       THEN Return(FALSE) /\ browser' = browser
       ELSE /\ browser' = [browser EXCEPT !.started = TRUE]
            /\ pc' = "login"
            /\ ret' = ret
    /\ UNCHANGED <<page, schedule, target_time_str, best, printed, env, today,
                   target_date_str, duration_minutes, book, form, ga, proc>>

\* the login either reaches the portal or raises
Login ==
    /\ pc = "login"
    /\ \E ok \in BOOLEAN :
          IF ok
          THEN pc' = "navigate" /\ ret' = ret /\ browser' = browser
          ELSE Return(FALSE) /\ browser' = [browser EXCEPT !.quit = TRUE]
    /\ UNCHANGED <<page, schedule, target_time_str, best, printed, env, today,
                   target_date_str, duration_minutes, book, form, ga, proc>>

\* the bookings page opens on today; 'tomorrow' clicks Next once and a digit
\* string clicks it once per day, each click only if the button is displayed
\* and enabled; any other string stays on the page; a Next button that is
\* not found raises
Navigate ==
    /\ pc = "navigate"
    /\ \E found \in BOOLEAN, clicks \in 0..MaxDaysAhead, pg \in FlowPages :
          /\ clicks <= (IF target_date_str.kind = "tomorrow" THEN 1
                        ELSE IF target_date_str.kind = "digits" THEN target_date_str.n
                        ELSE 0)
          /\ target_date_str.kind \notin {"tomorrow", "digits"} => found
          /\ IF found
             THEN /\ browser' = [browser EXCEPT !.day = clicks]
                  /\ page' = pg
                  /\ pc' = "extract_schedule"
                  /\ ret' = ret
             ELSE /\ clicks = 0
                  /\ pg = CHOOSE q \in FlowPages : TRUE
                  /\ browser' = [browser EXCEPT !.quit = TRUE]
                  /\ page' = page
                  /\ Return(FALSE)
    /\ UNCHANGED <<schedule, target_time_str, best, printed, env, today,
                   target_date_str, duration_minutes, book, form, ga, proc>>

\* CheckBest without the test for a court: book_court is always called
CheckBestAlwaysBooks ==
    /\ pc = "best_found"
    /\ book' = [book EXCEPT !.duration_minutes = Min(duration_minutes, best.duration)]
    /\ pc' = "book_court"
    /\ UNCHANGED <<ret, browser>>
    /\ UNCHANGED <<page, schedule, target_time_str, best, printed, env, today,
                   target_date_str, duration_minutes, form, ga, proc>>

\* no court found: False; otherwise book_court with the shorter of the
\* requested and the available duration
CheckBest ==
    /\ pc = "best_found"
    /\ IF best.court = 0
       THEN /\ Return(FALSE)
            /\ browser' = [browser EXCEPT !.quit = TRUE]
            /\ book' = book
       ELSE /\ book' = [book EXCEPT !.duration_minutes = Min(duration_minutes, best.duration)]
            /\ pc' = "book_court"
            /\ UNCHANGED <<ret, browser>>
    /\ UNCHANGED <<page, schedule, target_time_str, best, printed, env, today,
                   target_date_str, duration_minutes, form, ga, proc>>

Next ==
    \/ CheckCredentials
    \/ Login
    \/ Navigate
    \/ ExtractSchedule
    \/ FindBestCourt
    \/ CheckBest
    \/ BookCourt_ClickReserve
    \/ BookCourt_SelectType
    \/ BookCourt_FillForm
    \/ BookCourt_Submit

Spec == Init /\ [][Next]_vars

\* ------------------------------------------- GitHubActionsCourtBooker: texts
\* str.lower() of the AM/PM part of a time string
Lower(ap) ==
    IF ap = "PM" THEN "pm"
    ELSE IF ap = "AM" THEN "am"
    ELSE IF ap = "P.M." THEN "p.m."
    ELSE IF ap = "A.M." THEN "a.m."
    ELSE ap

\* the hour digits of the needle end the hour digits of a time in the text:
\* '1:00 PM' occurs in '11:00 PM'
HourWithin(h, hh) == hh = h \/ (h \in 0..2 /\ hh = 10 + h)

\* contains(text(), 'h:mm ap') of XPath and 'h:mm ap' in text of Python,
\* for a text that holds the time strings of the sequence
InText(t, text) ==
    \E i \in 1..Len(text) :
        /\ HourWithin(t.h, text[i].h)
        /\ text[i].m = t.m
        /\ text[i].ap = t.ap

\* t.lower() in text.lower()
InTextLower(t, text) ==
    \E i \in 1..Len(text) :
        /\ HourWithin(t.h, text[i].h)
        /\ text[i].m = t.m
        /\ Lower(text[i].ap) = Lower(t.ap)

\* "5:00" in btn_text
HasFiveOClock(text) ==
    \E i \in 1..Len(text) : text[i].h = 5 /\ text[i].m = 0

\* booking_time.replace(":00", "").lower() in page_text: 'h ap' for a time
\* on the hour, which also ends any 'h:mm ap' whose minutes end in h
InTextWithoutMinutes(t, text) ==
    IF t.m # 0 THEN InTextLower(t, text)
    ELSE \E i \in 1..Len(text) :
            /\ Lower(text[i].ap) = Lower(t.ap)
            /\ IF t.h < 10 THEN text[i].m % 10 = t.h ELSE text[i].m = t.h

\* --------------------------------- GitHubActionsCourtBooker: the bookings page
\* the XPath patterns of the grid cells, in the order they are tried
grid_cell_patterns ==
    << [tag |-> "td", time |-> T(5, 0, "p.m.")],
       [tag |-> "div", time |-> T(5, 0, "p.m.")],
       [tag |-> "td", time |-> T(5, 0, "PM")],
       [tag |-> "div", time |-> T(5, 0, "PM")],
       [tag |-> "span", time |-> T(5, 0, "p.m.")],
       [tag |-> "span", time |-> T(5, 0, "PM")] >>

\* the displayed elements that one pattern finds, by their place in the page
RECURSIVE CellsMatching(_, _, _)
CellsMatching(cells, pattern, i) ==
    IF i > Len(cells) THEN << >>
    ELSE (IF /\ cells[i].tag = pattern.tag
             /\ InText(pattern.time, cells[i].text)
             /\ cells[i].displayed
          THEN <<i>> ELSE << >>) \o CellsMatching(cells, pattern, i + 1)

\* clickable_time_cells after the loop over the patterns
RECURSIVE GridCells(_, _)
GridCells(cells, p) ==
    IF p > Len(grid_cell_patterns) THEN << >>
    ELSE CellsMatching(cells, grid_cell_patterns[p], 1) \o GridCells(cells, p + 1)

\* target_time_buttons: the Reserve buttons whose text holds the booking
\* time or "5:00"
RECURSIVE TargetTimeButtons(_, _, _)
TargetTimeButtons(cells, booking_time, i) ==
    IF i > Len(cells) THEN << >>
    ELSE (IF /\ cells[i].tag = "button"
             /\ \/ InTextLower(booking_time[1], cells[i].text)
                \/ HasFiveOClock(cells[i].text)
          THEN <<i>> ELSE << >>) \o TargetTimeButtons(cells, booking_time, i + 1)

\* the grid cells, or the Reserve buttons when there is no grid cell
ClickableTimeCells(cells, booking_time) ==
    IF GridCells(cells, 1) # << >> THEN GridCells(cells, 1)
    ELSE TargetTimeButtons(cells, booking_time, 1)

\* the first element of the list on the court whose click succeeds, 0 if none
RECURSIVE FirstOnCourt(_, _, _)
FirstOnCourt(cells, list, court_num) ==
    IF list = << >> THEN 0
    ELSE IF cells[Head(list)].court = court_num /\ cells[Head(list)].click_ok
         THEN Head(list)
         ELSE FirstOnCourt(cells, Tail(list), court_num)

\* courts 1 to 4 in turn: the element that is clicked, 0 if none
RECURSIVE ClickedCell(_, _, _)
ClickedCell(cells, list, court_num) ==
    IF court_num > 4 THEN 0
    ELSE IF FirstOnCourt(cells, list, court_num) # 0
         THEN FirstOnCourt(cells, list, court_num)
         ELSE ClickedCell(cells, list, court_num + 1)

\* the texts of the cells and buttons of a page
SlotTexts ==
    {<<T(5, 0, "PM")>>, <<T(5, 0, "p.m.")>>, <<T(6, 0, "PM")>>, <<T(5, 0, "AM")>>}

\* the elements of a bookings page: grid cells and Reserve buttons, with the
\* court their row or column gives them (0: none), some hidden, some whose
\* click raises
Cells ==
    { c \in [tag : {"td", "button"}, text : SlotTexts, displayed : BOOLEAN,
             court : 0..2, click_ok : BOOLEAN] :
        /\ c.tag = "td" => c.text # <<T(5, 0, "AM")>>
        /\ c.tag = "button" => /\ c.text \in {<<T(6, 0, "PM")>>, <<T(5, 0, "AM")>>}
                               /\ c.displayed
                               /\ c.court # 0
        /\ c.court = 0 => c.text = <<T(5, 0, "PM")>>
        /\ ~c.displayed => c.click_ok /\ c.court = 1
        /\ ~c.click_ok => c.court = 1 /\ c.text # <<T(5, 0, "PM")>> }

\* the pages find_and_click_time_slot may look at
BookingPages ==
    {<< >>} \cup { <<c>> : c \in Cells } \cup { <<c, d>> : c \in Cells, d \in Cells }

\* what the page source may hold after the refresh
Sources ==
    { src \in [names : {{}, {"Scott Jackson"}},
               times : {<< >>, <<T(5, 0, "PM")>>, <<T(6, 0, "pm")>>, <<T(4, 15, "PM")>>},
               types : {{}, {"singles"}, {"solo practice"}},
               court_words : BOOLEAN] :
        src.court_words => src.times = <<T(5, 0, "PM")>> }

\* found_indicators of verify_booking is not empty
FoundIndicators(b, source) ==
    \/ b.additional_player # "" /\ b.additional_player \in source.names
    \/ InTextLower(b.booking_time[1], source.times)
    \/ InTextWithoutMinutes(b.booking_time[1], source.times)
    \/ (IF b.additional_player = "" THEN "solo practice" ELSE "singles") \in source.types
    \/ InText(b.booking_time[1], source.times) /\ source.court_words

\* ------------------------------------------ GitHubActionsCourtBooker.run
\* the methods of run in the order of its body
Order ==
    << "setup_driver", "login", "navigate_to_bookings", "navigate_forward_days",
       "find_and_click_time_slot", "fill_booking_form", "submit_booking_form",
       "verify_booking" >>

Called(step, result) == steps' = Append(steps, [step |-> step, result |-> result])

\* the driver is quit in the finally clause when there is one
Quit(b) == [b EXCEPT !.quit = b.started]

\* 'if not self.step(): return False' that lets any result pass
GateOpen(result, next) ==
    /\ pc' = next
    /\ ret' = ret

\* 'if not self.step(): return False', and the except clause of run for a
\* step that raises
Gate(result, next) ==
    IF result = "True" THEN pc' = next /\ ret' = ret
    ELSE Return(FALSE)

\* AdditionalPlayer that asks the environment before --player
AdditionalPlayerEnvFirst(no_player, player, env_player) ==
    IF no_player THEN ""
    ELSE IF env_player # NoArg THEN env_player
    ELSE IF player # NoArg THEN player
    ELSE "Scott Jackson"

\* self.additional_player of __init__
AdditionalPlayer(no_player, player, env_player) ==
    IF no_player THEN ""
    ELSE IF player # NoArg THEN player
    ELSE IF env_player # NoArg THEN env_player
    ELSE "Scott Jackson"

\* main: parse_args, which prints the usage and exits with 2 for a command
\* line it does not accept and exits with 0 for --help, and the constructor,
\* which raises without credentials
Main ==
    /\ pc = "main"
    /\ \E parsed \in {"parsed", "usage error", "help"},
          time \in {<< >>, <<T(6, 0, "PM")>>, <<T(1, 0, "PM")>>},
          player \in {NoArg, "", "John Doe"},
          no_player \in BOOLEAN,
          env_player \in {NoArg, "", "Pat Lee"},
          days_ahead \in {1, MaxDaysAhead} :
          IF parsed = "parsed"
          THEN /\ env_player = "" => (player = NoArg /\ ~no_player)
               /\ args' = [time |-> time, player |-> player, no_player |-> no_player,
                           env_player |-> env_player, days_ahead |-> days_ahead]
               /\ booker' = [booking_time |-> IF time = << >> THEN <<T(5, 0, "PM")>>
                                              ELSE time,
                             additional_player |->
                                 AdditionalPlayer(no_player, player, env_player),
                             days_ahead |-> days_ahead]
               /\ pc' = IF env.username = "" \/ env.password = "" THEN "fatal"
                        ELSE "setup_driver"
               /\ exit_code' = exit_code
          ELSE /\ time = << >> /\ player = NoArg /\ ~no_player
               /\ env_player = NoArg /\ days_ahead = 1
               /\ args' = args
               /\ booker' = booker
               /\ pc' = "exited"
               /\ exit_code' = IF parsed = "help" THEN 0 ELSE 2
    /\ UNCHANGED <<page, schedule, target_time_str, best, printed, env, today,
                   target_date_str, duration_minutes, browser, book, form, ret,
                   steps, page_source, program>>

MainExitZero ==
    /\ program = "github_actions_court_booking"
    /\ pc \in {"done", "fatal"}
    /\ exit_code = None
    /\ exit_code' = 0
    /\ UNCHANGED <<pc, page, schedule, target_time_str, best, printed, flow, ga, program, args>>

\* main after run returned or the constructor raised: exit(0) for True,
\* exit(1) for False and for the exception
MainExit ==
    /\ program = "github_actions_court_booking"
    /\ pc \in {"done", "fatal"}
    /\ exit_code = None
    /\ exit_code' = IF pc = "done" /\ ret = TRUE THEN 0 ELSE 1
    /\ UNCHANGED <<pc, page, schedule, target_time_str, best, printed, flow, ga,
                   program, args>>

\* setup_driver: Chrome starts, or the call raises and run returns False
SetupDriver ==
    /\ pc = "setup_driver"
    /\ \E started \in BOOLEAN :
          /\ browser' = [browser EXCEPT !.started = started]
          /\ Called("setup_driver", IF started THEN "None" ELSE "raised")
          /\ IF started THEN pc' = "run_login" /\ ret' = ret ELSE Return(FALSE)
    /\ UNCHANGED <<page, schedule, target_time_str, best, printed, env, today,
                   target_date_str, duration_minutes, book, form, booker, page_source, proc>>

\* login: True at the portal, False for anything raised on the way
RunLogin ==
    /\ pc = "run_login"
    /\ \E result \in {"True", "False"} :
          /\ Called("login", result)
          /\ Gate(result, "navigate_to_bookings")
          /\ browser' = IF result = "True" THEN browser ELSE Quit(browser)
    /\ UNCHANGED <<page, schedule, target_time_str, best, printed, env, today,
                   target_date_str, duration_minutes, book, form, booker, page_source, proc>>

\* navigate_to_bookings: True once the page is loaded; a load that raises
\* ends run
NavigateToBookings ==
    /\ pc = "navigate_to_bookings"
    /\ \E result \in {"True", "raised"} :
          /\ Called("navigate_to_bookings", result)
          /\ Gate(result, "navigate_forward_days")
          /\ browser' = IF result = "True" THEN browser ELSE Quit(browser)
    /\ UNCHANGED <<page, schedule, target_time_str, best, printed, env, today,
                   target_date_str, duration_minutes, book, form, booker, page_source, proc>>

\* navigate_forward_days: the calendar or the Next button, each failure
\* caught; the page is then some day up to days_ahead away
NavigateForwardDays ==
    /\ pc = "navigate_forward_days"
    /\ \E day \in 0..booker.days_ahead :
          browser' = [browser EXCEPT !.day = day]
    /\ Called("navigate_forward_days", "None")
    /\ pc' = "find_and_click_time_slot"
    /\ UNCHANGED <<page, schedule, target_time_str, best, printed, env, today,
                   target_date_str, duration_minutes, book, form, ret, booker,
                   page_source, proc>>

\* find_and_click_time_slot on the page the time navigation left: the
\* element clicked is kept in the clicks of the driver
FindAndClickTimeSlot ==
    /\ pc = "find_and_click_time_slot"
    /\ \E cells \in BookingPages :
          LET list == ClickableTimeCells(cells, booker.booking_time)
              hit == ClickedCell(cells, list, 1)
              result == IF hit # 0 THEN "True" ELSE "False"
          IN  /\ browser' = IF hit # 0
                            THEN [browser EXCEPT !.clicked = Append(@, cells[hit])]
                            ELSE Quit(browser)
              /\ Called("find_and_click_time_slot", result)
              /\ Gate(result, "fill_booking_form")
    /\ UNCHANGED <<page, schedule, target_time_str, best, printed, env, today,
                   target_date_str, duration_minutes, book, form, booker, page_source, proc>>

\* fill_booking_form: no modal gives False; the type is selected by a script
\* and read back from the displayed dropdowns, False when none shows it; the
\* duration is set without reading it back; the player is typed when there
\* is one and the input is found
FillBookingForm ==
    /\ pc = "fill_booking_form"
    /\ \E modal \in BOOLEAN, shown \in DropdownTexts, applied \in BOOLEAN,
          input_found \in BOOLEAN :
          LET reservation_type ==
                  IF booker.additional_player # "" THEN "singles" ELSE "solo practice"
              result == IF modal /\ shown = reservation_type THEN "True" ELSE "False"
          IN  /\ ~modal => shown = "reservation type"
              /\ result = "False" => ~applied /\ ~input_found
              /\ form' = [open |-> modal,
                          type_shown |-> IF modal THEN shown ELSE "",
                          duration |-> IF applied THEN "45" ELSE "30",
                          player |-> /\ result = "True"
                                     /\ booker.additional_player # ""
                                     /\ input_found]
              /\ Called("fill_booking_form", result)
              /\ Gate(result, "submit_booking_form")
              /\ browser' = IF result = "True" THEN browser ELSE Quit(browser)
    /\ UNCHANGED <<page, schedule, target_time_str, best, printed, env, today,
                   target_date_str, duration_minutes, book, booker, page_source, proc>>

\* submit_booking_form: Save not found or not displayed and enabled gives
\* False; after the click False when an open modal shows an error, True
\* otherwise
SubmitBookingForm ==
    /\ pc = "submit_booking_form"
    /\ \E outcome \in {"no save button", "save not available", "modal closed",
                       "modal shows error", "modal open"} :
          LET result == IF outcome \in {"modal closed", "modal open"}
                        THEN "True" ELSE "False"
          IN  /\ browser' = [browser EXCEPT
                    !.saves = IF outcome \in {"no save button", "save not available"}
                              THEN @ ELSE @ + 1,
                    !.quit = (result = "False")]
              /\ form' = [form EXCEPT !.open = (outcome # "modal closed")]
              /\ Called("submit_booking_form", result)
              /\ Gate(result, "verify_booking")
    /\ UNCHANGED <<page, schedule, target_time_str, best, printed, env, today,
                   target_date_str, duration_minutes, book, booker, page_source, proc>>

\* verify_booking: the page is refreshed and its source searched; True when
\* any indicator is found, False when none is or the refresh raises; run
\* returns the same
VerifyBooking ==
    /\ pc = "verify_booking"
    /\ \E refreshed \in BOOLEAN, source \in Sources :
          LET result == IF refreshed /\ FoundIndicators(booker, source)
                        THEN "True" ELSE "False"
          IN  /\ ~refreshed => source = NoSource
              /\ page_source' = source
              /\ Called("verify_booking", result)
              /\ Return(result = "True")
    /\ browser' = Quit(browser)
    /\ UNCHANGED <<page, schedule, target_time_str, best, printed, env, today,
                   target_date_str, duration_minutes, book, form, booker, proc>>

InitRun ==
    /\ pc = "main"
    /\ env \in {[username |-> "member", password |-> "secret"],
                [username |-> "", password |-> "secret"],
                [username |-> "member", password |-> ""]}
    /\ today = 0
    /\ target_date_str = [kind |-> "today", n |-> 0]
    /\ duration_minutes = 0
    /\ target_time_str = << >>
    /\ page = NoPage
    /\ schedule = << >>
    /\ best = NoCourt
    /\ printed = << >>
    /\ browser = NoBrowser
    /\ book = NoBook
    /\ form = NoForm
    /\ ret = "none"
    /\ NoRun
    /\ Started("github_actions_court_booking")

NextRun ==
    \/ Main
    \/ SetupDriver
    \/ RunLogin
    \/ NavigateToBookings
    \/ NavigateForwardDays
    \/ FindAndClickTimeSlot
    \/ FillBookingForm
    \/ SubmitBookingForm
    \/ VerifyBooking
    \/ MainExit

SpecRun == InitRun /\ [][NextRun]_vars

\* ------------------------------------------------------- FixedCourtBooker
\* run navigates 14 days ahead
FixedDaysAhead == 14

\* the Reserve buttons of a page FixedCourtBooker looks at
FixedButtons ==
    [tag : {"button"}, text : {<<T(5, 0, "PM")>>, <<T(6, 0, "PM")>>},
     displayed : {TRUE}, court : {1}, click_ok : BOOLEAN]

FixedPages ==
    {<< >>} \cup { <<b>> : b \in FixedButtons }
            \cup { <<b, c>> : b \in FixedButtons, c \in FixedButtons }

\* the buttons whose text holds 'Reserve' and '5:00 PM', by their place
RECURSIVE FivePMButtons(_, _)
FivePMButtons(cells, i) ==
    IF i > Len(cells) THEN << >>
    ELSE (IF cells[i].tag = "button" /\ InText(T(5, 0, "PM"), cells[i].text)
          THEN <<i>> ELSE << >>) \o FivePMButtons(cells, i + 1)

\* found_indicators of verify_booking_by_refresh is not empty: the name
\* 'scott jackson', the time '5:00 pm' or '5:00 p.m.', or 'singles'
FixedFoundIndicators(source) ==
    \/ "Scott Jackson" \in source.names
    \/ InTextLower(T(5, 0, "pm"), source.times)
    \/ InTextLower(T(5, 0, "p.m."), source.times)
    \/ "singles" \in source.types

\* main: the constructor raises without credentials and the traceback ends
\* the process with 1
FixedMain ==
    /\ pc = "fixed.main"
    /\ IF env.username = "" \/ env.password = ""
       THEN pc' = "fatal" /\ exit_code' = 1
       ELSE pc' = "fixed.setup_driver" /\ exit_code' = exit_code
    /\ UNCHANGED <<page, schedule, target_time_str, best, printed, flow, ga,
                   program, args>>

FixedSetupDriver ==
    /\ pc = "fixed.setup_driver"
    /\ \E started \in BOOLEAN :
          /\ browser' = [browser EXCEPT !.started = started]
          /\ Called("setup_driver", IF started THEN "None" ELSE "raised")
          /\ IF started THEN pc' = "fixed.login" /\ ret' = ret ELSE Return(FALSE)
    /\ UNCHANGED <<page, schedule, target_time_str, best, printed, env, today,
                   target_date_str, duration_minutes, book, form, booker, page_source,
                   proc>>

\* login: the page load is outside the try and may raise; the rest gives
\* True or False
FixedLogin ==
    /\ pc = "fixed.login"
    /\ \E result \in {"True", "False", "raised"} :
          /\ Called("login", result)
          /\ Gate(result, "fixed.navigate_to_bookings")
          /\ browser' = IF result = "True" THEN browser ELSE Quit(browser)
    /\ UNCHANGED <<page, schedule, target_time_str, best, printed, env, today,
                   target_date_str, duration_minutes, book, form, booker, page_source,
                   proc>>

FixedNavigateToBookings ==
    /\ pc = "fixed.navigate_to_bookings"
    /\ \E result \in {"True", "raised"} :
          /\ Called("navigate_to_bookings", result)
          /\ Gate(result, "fixed.navigate_forward_days")
          /\ browser' = IF result = "True" THEN browser ELSE Quit(browser)
    /\ UNCHANGED <<page, schedule, target_time_str, best, printed, env, today,
                   target_date_str, duration_minutes, book, form, booker, page_source,
                   proc>>

\* Next is clicked once per day until it is missing, hidden or disabled
FixedNavigateForwardDays ==
    /\ pc = "fixed.navigate_forward_days"
    /\ \E day \in 0..FixedDaysAhead :
          browser' = [browser EXCEPT !.day = day]
    /\ Called("navigate_forward_days", "None")
    /\ pc' = "fixed.find_and_click_500pm_slot"
    /\ UNCHANGED <<page, schedule, target_time_str, best, printed, env, today,
                   target_date_str, duration_minutes, book, form, ret, booker,
                   page_source, proc>>

\* the first Reserve button with '5:00 PM' is clicked; a click that raises
\* is caught by run
FixedFindAndClick ==
    /\ pc = "fixed.find_and_click_500pm_slot"
    /\ \E cells \in FixedPages :
          LET list == FivePMButtons(cells, 1)
              result == IF list = << >> THEN "False"
                        ELSE IF cells[Head(list)].click_ok THEN "True"
                        ELSE "raised"
          IN  /\ browser' = IF result = "True"
                            THEN [browser EXCEPT !.clicked = Append(@, cells[Head(list)])]
                            ELSE Quit(browser)
              /\ Called("find_and_click_500pm_slot", result)
              /\ Gate(result, "fixed.fill_booking_form")
    /\ UNCHANGED <<page, schedule, target_time_str, best, printed, env, today,
                   target_date_str, duration_minutes, book, form, booker, page_source,
                   proc>>

\* fill_booking_form: False without a modal and when no method selected
\* Singles; the selection is not read back here; 'Scott Jackson' is typed
\* when the input is found
FixedFillBookingForm ==
    /\ pc = "fixed.fill_booking_form"
    /\ \E modal \in BOOLEAN, singles_selected \in BOOLEAN, input_found \in BOOLEAN :
          LET result == IF modal /\ singles_selected THEN "True" ELSE "False" IN
          /\ result = "False" => ~input_found
          /\ ~modal => ~singles_selected
          /\ form' = [form EXCEPT !.open = modal, !.player = input_found]
          /\ Called("fill_booking_form", result)
          /\ Gate(result, "fixed.verify_form_before_submit")
          /\ browser' = IF result = "True" THEN browser ELSE Quit(browser)
    /\ UNCHANGED <<page, schedule, target_time_str, best, printed, env, today,
                   target_date_str, duration_minutes, book, booker, page_source, proc>>

\* verify_form_before_submit: True when a displayed dropdown shows 'singles'
FixedVerifyFormBeforeSubmit ==
    /\ pc = "fixed.verify_form_before_submit"
    /\ \E shown \in DropdownTexts :
          LET result == IF shown = "singles" THEN "True" ELSE "False" IN
          /\ form' = [form EXCEPT !.type_shown = shown]
          /\ Called("verify_form_before_submit", result)
          /\ Gate(result, "fixed.submit_booking_form")
          /\ browser' = IF result = "True" THEN browser ELSE Quit(browser)
    /\ UNCHANGED <<page, schedule, target_time_str, best, printed, env, today,
                   target_date_str, duration_minutes, book, booker, page_source, proc>>

\* submit_booking_form: True once Save, displayed and enabled, is clicked
FixedSubmitBookingForm ==
    /\ pc = "fixed.submit_booking_form"
    /\ \E outcome \in {"no save button", "save not available", "clicked"} :
          LET result == IF outcome = "clicked" THEN "True" ELSE "False" IN
          /\ browser' = [browser EXCEPT
                !.saves = IF outcome = "clicked" THEN @ + 1 ELSE @,
                !.quit = (result = "False")]
          /\ Called("submit_booking_form", result)
          /\ Gate(result, "fixed.verify_booking_by_refresh")
    /\ UNCHANGED <<page, schedule, target_time_str, best, printed, env, today,
                   target_date_str, duration_minutes, book, form, booker, page_source,
                   proc>>

\* verify_booking_by_refresh, and run returns the same
FixedVerifyBookingByRefresh ==
    /\ pc = "fixed.verify_booking_by_refresh"
    /\ \E refreshed \in BOOLEAN, source \in Sources :
          LET result == IF refreshed /\ FixedFoundIndicators(source)
                        THEN "True" ELSE "False"
          IN  /\ ~refreshed => source = NoSource
              /\ page_source' = source
              /\ Called("verify_booking_by_refresh", result)
              /\ Return(result = "True")
    /\ browser' = Quit(browser)
    /\ UNCHANGED <<page, schedule, target_time_str, best, printed, env, today,
                   target_date_str, duration_minutes, book, form, booker, proc>>

\* main prints the outcome and ends: the exit code is 0 whatever run returned
FixedExit ==
    /\ program = "fixed_court_booking"
    /\ pc = "done"
    /\ exit_code = None
    /\ exit_code' = 0
    /\ UNCHANGED <<pc, page, schedule, target_time_str, best, printed, flow, ga,
                   program, args>>

InitFixed ==
    /\ pc = "fixed.main"
    /\ env \in {[username |-> "member", password |-> "secret"],
                [username |-> "", password |-> "secret"],
                [username |-> "member", password |-> ""]}
    /\ today = 0
    /\ target_date_str = [kind |-> "today", n |-> 0]
    /\ duration_minutes = 0
    /\ target_time_str = << >>
    /\ page = NoPage
    /\ schedule = << >>
    /\ best = NoCourt
    /\ printed = << >>
    /\ browser = NoBrowser
    /\ book = NoBook
    /\ form = NoForm
    /\ ret = "none"
    /\ NoRun
    /\ Started("fixed_court_booking")

NextFixed ==
    \/ FixedMain
    \/ FixedSetupDriver
    \/ FixedLogin
    \/ FixedNavigateToBookings
    \/ FixedNavigateForwardDays
    \/ FixedFindAndClick
    \/ FixedFillBookingForm
    \/ FixedVerifyFormBeforeSubmit
    \/ FixedSubmitBookingForm
    \/ FixedVerifyBookingByRefresh
    \/ FixedExit

SpecFixed == InitFixed /\ [][NextFixed]_vars

\* ------------------------------------- smart_court_booking as a command
\* the command line: a date and a time, or neither and the defaults
\* 'tomorrow' and '4:00 PM'; the duration is the third argument, 45 when it
\* is missing, and int() raises for one that is no number, which ends the
\* process with 1
SmartMain ==
    /\ pc = "__main__"
    /\ \E given \in BOOLEAN, date \in DateStrings,
          time \in {<<T(12, 0, "PM")>>, <<T(12, 15, "PM")>>, <<T(13, 0, "")>>},
          duration \in {None, 30, 45, 60}, is_int \in BOOLEAN :
          /\ ~given => (/\ date = [kind |-> "tomorrow", n |-> 0]
                        /\ time = <<T(12, 0, "PM")>>
                        /\ duration = None /\ is_int)
          /\ ~is_int => (/\ date = [kind |-> "tomorrow", n |-> 0]
                         /\ time = <<T(12, 0, "PM")>>
                         /\ duration = 30)
          /\ IF is_int
             THEN /\ target_date_str' = date
                  /\ target_time_str' = IF given THEN time ELSE <<T(4, 0, "PM")>>
                  /\ duration_minutes' = IF duration = None THEN 45 ELSE duration
                  /\ pc' = "smart_book_court"
                  /\ exit_code' = exit_code
             ELSE /\ UNCHANGED <<target_date_str, target_time_str, duration_minutes>>
                  /\ pc' = "exited"
                  /\ exit_code' = 1
    /\ UNCHANGED <<page, schedule, best, printed, env, today, browser, book, form,
                   ret, ga, program, args>>

\* sys.exit(0 if success else 1)
SmartExit ==
    /\ program = "smart_court_booking"
    /\ pc = "done"
    /\ exit_code = None
    /\ exit_code' = IF ret = TRUE THEN 0 ELSE 1
    /\ UNCHANGED <<pc, page, schedule, target_time_str, best, printed, flow, ga,
                   program, args>>

InitCommand ==
    /\ pc = "__main__"
    /\ env \in {[username |-> "member", password |-> "secret"],
                [username |-> "", password |-> "secret"],
                [username |-> "member", password |-> ""]}
    /\ today \in 4..6
    /\ target_date_str = [kind |-> "today", n |-> 0]
    /\ target_time_str = << >>
    /\ duration_minutes = 0
    /\ page = NoPage
    /\ schedule = << >>
    /\ best = NoCourt
    /\ printed = << >>
    /\ browser = NoBrowser
    /\ book = NoBook
    /\ form = NoForm
    /\ ret = "none"
    /\ NoRun
    /\ Started("smart_court_booking")

\* ------------------------------------------------------ the three scripts
InitScripts == InitCommand \/ InitRun \/ InitFixed

NextScripts ==
    \/ SmartMain
    \/ Next
    \/ SmartExit
    \/ NextRun
    \/ NextFixed

SpecScripts == InitScripts /\ [][NextScripts]_vars

\* ------------------------------------------------- properties: the selection
Courts == 1..Len(schedule)

TargetTime == parse_time(target_time_str)

\* the interval a slot covers, <<None, None>> when its time does not parse
Interval(slot) ==
    IF slot.status = "available"
    THEN LET p == parse_time(slot.time) IN
         IF p = None THEN <<None, None>> ELSE <<p, p + 30>>
    ELSE parse_time_range(slot.time)

\* no two slots of the court cover a common minute
NoOverlap(court) ==
    \A i, j \in 1..Len(court.slots) :
        LET a == Interval(court.slots[i])
            b == Interval(court.slots[j])
        IN  (i < j /\ a[1] # None /\ a[2] # None /\ b[1] # None /\ b[2] # None)
                => ~(a[1] < b[2] /\ b[1] < a[2])

\* the start times of the court's available slots
AvailStarts(court) ==
    { parse_time(court.slots[k].time) :
        k \in { n \in 1..Len(court.slots) : court.slots[n].status = "available" } }
    \ {None}

HasSlotAt(court, t) == \E s \in AvailStarts(court) : s <= t /\ t < s + 30

\* how many available slots follow the one starting at s without a gap
FreeRun(starts, s) ==
    CHOOSE n \in 0..Cardinality(starts) :
        /\ \A i \in 1..n : s + 30 * i \in starts
        /\ s + 30 * (n + 1) \notin starts

\* minutes from t to the end of the slot holding t, plus 30 for each slot
\* that follows without a gap
FreeDuration(court, t) ==
    LET starts == AvailStarts(court)
        s == CHOOSE x \in starts : x <= t /\ t < x + 30
    IN  (s + 30 - t) + 30 * FreeRun(starts, s)

\* the singles courts with an available slot holding the target time
Candidates ==
    { i \in Courts : schedule[i].is_singles /\ HasSlotAt(schedule[i], TargetTime) }

\* C1 as stated, for every schedule: when some singles court has an
\* available slot holding the target time, find_best_court returns such a
\* court, the duration returned is that court's contiguous free duration
\* from the target time, and no such court has a longer one.
C1_Original ==
    (/\ pc = "best_found"
     /\ TargetTime # None
     /\ Candidates # {})
    => /\ best.court \in Candidates
       /\ best.duration = FreeDuration(schedule[best.court], TargetTime)
       /\ \A j \in Candidates : FreeDuration(schedule[j], TargetTime) <= best.duration

\* C1 (amended): when the slots of no singles court overlap and some singles court has
\* an available slot holding the target time, find_best_court returns such a
\* court, the duration returned is that court's contiguous free duration
\* from the target time, no such court has a longer one, and every such
\* court before it in the schedule has a shorter one.
C1_LongestAvailability ==
    (/\ pc = "best_found"
     /\ TargetTime # None
     /\ \A i \in Courts : schedule[i].is_singles => NoOverlap(schedule[i])
     /\ Candidates # {})
    => /\ best.court \in Candidates
       /\ best.duration = FreeDuration(schedule[best.court], TargetTime)
       /\ \A j \in Candidates : FreeDuration(schedule[j], TargetTime) <= best.duration
       /\ \A j \in Candidates :
             j < best.court => FreeDuration(schedule[j], TargetTime) < best.duration

\* both courts are candidates and the second one, which is free longer, wins
C1_Witness ==
    /\ pc = "best_found"
    /\ \A i \in Courts : schedule[i].is_singles => NoOverlap(schedule[i])
    /\ Candidates = {1, 2}
    /\ FreeDuration(schedule[1], TargetTime) < FreeDuration(schedule[2], TargetTime)
    /\ best.court = 2
    /\ best.duration = 45

\* C2: for a singles court whose slots do not overlap and which has an
\* available slot holding the target time, the duration computed is the
\* minutes to the end of that slot plus 30 for each available slot that
\* starts where the previous one ended; slots after a gap or a booking are
\* not counted.
C2_ContiguousDuration ==
    (pc = "best_found" /\ TargetTime # None)
    => \A i \in Courts :
          (/\ schedule[i].is_singles
           /\ NoOverlap(schedule[i])
           /\ HasSlotAt(schedule[i], TargetTime))
          => printed[i] = FreeDuration(schedule[i], TargetTime)

\* court 1 merges two slots from inside the first; court 2 stops at a booking
\* and leaves out the available slot after it
C2_Witness ==
    /\ pc = "best_found"
    /\ \A i \in Courts : schedule[i].is_singles /\ NoOverlap(schedule[i])
    /\ TargetTime = 11 * 60 + 45
    /\ AvailStarts(schedule[1]) = {11 * 60 + 30, 12 * 60}
    /\ printed[1] = 45
    /\ AvailStarts(schedule[2]) = {11 * 60 + 30, 12 * 60 + 30}
    /\ \E k \in 1..Len(schedule[2].slots) :
          /\ schedule[2].slots[k].status = "booked"
          /\ Interval(schedule[2].slots[k]) = <<12 * 60, 12 * 60 + 30>>
    /\ printed[2] = 15

\* C4: the button returned is the Reserve button of an available slot of the
\* returned court whose 30 minutes hold the target time, and of no slot of
\* another court.
C4_ButtonOfTargetSlot ==
    (pc = "best_found" /\ best.court # 0)
    => /\ \E k \in 1..Len(schedule[best.court].slots) :
            LET slot == schedule[best.court].slots[k] IN
            /\ slot.status = "available"
            /\ slot.button = best.button
            /\ parse_time(slot.time) # None
            /\ parse_time(slot.time) <= TargetTime
            /\ TargetTime < parse_time(slot.time) + 30
       /\ \A j \in Courts \ {best.court} :
            \A k \in 1..Len(schedule[j].slots) : schedule[j].slots[k].button # best.button
       /\ \A k \in 1..Len(schedule[best.court].slots) :
            LET slot == schedule[best.court].slots[k] IN
            slot.button = best.button
               => (parse_time(slot.time) <= TargetTime
                   /\ TargetTime < parse_time(slot.time) + 30)

\* a court is returned whose column also has the slot that ends at the
\* target time and the slot after the one holding it
C4_Witness ==
    /\ pc = "best_found"
    /\ best.court = 2
    /\ TargetTime = 12 * 60
    /\ AvailStarts(schedule[2]) = {11 * 60 + 30, 12 * 60, 12 * 60 + 30}
    /\ HasSlotAt(schedule[1], TargetTime)
    /\ best.button = 24

\* ------------------------------------------------ properties: the extraction
\* the header cell of a court of the schedule
HeaderOf(court) == page.ths[court.column_index + 1]

\* the x-range extract_schedule recorded under the court's name: that of the
\* last court header with this text
RecordedRange(court) ==
    LET k == CHOOSE n \in 2..Len(page.ths) :
                 /\ page.ths[n].text = court.name
                 /\ \A m \in (n + 1)..Len(page.ths) : page.ths[m].text # court.name
    IN  [x_start |-> page.ths[k].x, x_end |-> page.ths[k].x + page.ths[k].width]

OwnRange(court) ==
    [x_start |-> HeaderOf(court).x, x_end |-> HeaderOf(court).x + HeaderOf(court).width]

\* the centre x + width / 2 lies in the range, ends included
CentreIn(el, range) ==
    /\ 2 * range.x_start <= 2 * el.x + el.width
    /\ 2 * el.x + el.width <= 2 * range.x_end

\* how often the container / the button is in the court's slot list
TimesBooked(court, div) ==
    Cardinality({ n \in 1..Len(court.slots) :
                    court.slots[n].status = "booked" /\ court.slots[n].type = div.type })

TimesAvailable(court, button) ==
    Cardinality({ n \in 1..Len(court.slots) :
                    court.slots[n].status = "available" /\ court.slots[n].button = button.id })

Extracted == pc = "find_best_court"

Divs == { page.booking_divs[n] : n \in 1..Len(page.booking_divs) }
Buttons == { page.reserve_buttons[n] : n \in 1..Len(page.reserve_buttons) }
ScheduleCourts == { schedule[n] : n \in 1..Len(schedule) }

\* every slot is a booking with status 'booked' or a button with status
\* 'available', and a court has no more slots than elements were assigned
SlotsWellFormed(range(_)) ==
    \A court \in ScheduleCourts :
        /\ \A n \in 1..Len(court.slots) :
              \/ /\ court.slots[n].status = "booked"
                 /\ \E d \in Divs : d.has_text /\ d.type = court.slots[n].type
                                    /\ d.time = court.slots[n].time
              \/ /\ court.slots[n].status = "available"
                 /\ \E b \in Buttons : b.id = court.slots[n].button
                                       /\ b.time = court.slots[n].time
        /\ Len(court.slots) =
              Cardinality({ d \in Divs : d.has_text /\ CentreIn(d, range(court)) })
              + Cardinality({ b \in Buttons : b.displayed /\ CentreIn(b, range(court)) })

\* C6 as stated: every reservation container and every Reserve button is in
\* a court's slot list exactly when its centre lies in the x-range of that
\* court's header.
C6_Original ==
    Extracted =>
        \A court \in ScheduleCourts :
            /\ \A d \in Divs :
                  TimesBooked(court, d) = (IF CentreIn(d, OwnRange(court)) THEN 1 ELSE 0)
            /\ \A b \in Buttons :
                  TimesAvailable(court, b) = (IF CentreIn(b, OwnRange(court)) THEN 1 ELSE 0)

\* C6 (amended): a reservation container that has text, and a displayed
\* Reserve button, is in a court's slot list (once, as 'booked' resp.
\* 'available') exactly when its centre lies in the x-range recorded under
\* that court's name; a container without text and a button that is not
\* displayed are in no slot list, and neither is an element whose centre
\* lies in no header's range.
C6_PositionMatching ==
    Extracted =>
        /\ \A court \in ScheduleCourts :
            /\ \A d \in Divs :
                  TimesBooked(court, d) =
                     (IF d.has_text /\ CentreIn(d, RecordedRange(court)) THEN 1 ELSE 0)
            /\ \A b \in Buttons :
                  TimesAvailable(court, b) =
                     (IF b.displayed /\ CentreIn(b, RecordedRange(court)) THEN 1 ELSE 0)
        /\ SlotsWellFormed(RecordedRange)
        /\ \A el \in Divs \cup Buttons :
              (\A k \in 2..Len(page.ths) :
                  ~CentreIn(el, [x_start |-> page.ths[k].x,
                                 x_end |-> page.ths[k].x + page.ths[k].width]))
              => \A court \in ScheduleCourts :
                    \A n \in 1..Len(court.slots) :
                        court.slots[n].type # el.id /\ court.slots[n].button # el.id

\* two adjacent court columns; a container with text and a displayed button
\* are in the first court only, a button with its centre at 20.5 in the
\* second only
C6_Witness ==
    /\ Extracted
    /\ Len(schedule) = 2
    /\ schedule[1].name # schedule[2].name
    /\ \E d \in Divs : /\ d.has_text /\ d.x = 11
                       /\ TimesBooked(schedule[1], d) = 1
                       /\ TimesBooked(schedule[2], d) = 0
    /\ \E b \in Buttons : /\ b.displayed /\ b.x = 16 /\ b.width = 9
                          /\ TimesAvailable(schedule[1], b) = 0
                          /\ TimesAvailable(schedule[2], b) = 1
    /\ \E b \in Buttons : /\ b.displayed /\ b.x = 40
                          /\ TimesAvailable(schedule[1], b) = 0
                          /\ TimesAvailable(schedule[2], b) = 0

\* ----------------------------------------------------- properties: the run
\* find_best_court has returned in this run
BestKnown == pc \in {"best_found", "book_court", "select_type", "fill_form", "submit"}
             \/ (pc = "done" /\ page # NoPage)

FreeAtTarget(court) == HasSlotAt(court, TargetTime)

\* C3: every court of the schedule has is_singles exactly when its header
\* text holds 'Singles' and not 'Doubles', and the court find_best_court
\* returns is such a court, whichever courts are free at the target time.
C3_SinglesCourtOnly ==
    /\ \A i \in Courts :
          schedule[i].is_singles <=> (HeaderOf(schedule[i]).text.label = "Court # Singles")
    /\ (BestKnown /\ best.court # 0)
          => /\ schedule[best.court].is_singles
             /\ HeaderOf(schedule[best.court]).text.label = "Court # Singles"

\* the only court free at the target time is headed 'Singles/Doubles', the
\* other one 'Singles': no court is returned
C3_Witness ==
    /\ BestKnown
    /\ Len(schedule) = 2
    /\ schedule[1].name.label = "Court # Singles/Doubles"
    /\ FreeAtTarget(schedule[1])
    /\ schedule[2].name.label = "Court # Singles"
    /\ ~FreeAtTarget(schedule[2])
    /\ best.court = 0

\* C5: when the target time does not parse or no singles court has an
\* available slot holding it, find_best_court returns (None, 0, None),
\* smart_book_court goes on to nothing but its return of False, and no
\* Reserve button is clicked and no form submitted in the run.
C5_NoCourtNoBooking ==
    (BestKnown /\ (TargetTime = None \/ Candidates = {}))
    => /\ best = NoCourt
       /\ pc \in {"best_found", "done"}
       /\ pc = "done" => ret = FALSE
       /\ browser.clicked = << >>
       /\ browser.saves = 0
       /\ ~form.open

\* the run ended with False although a doubles court was free at the target
\* time
C5_Witness ==
    /\ pc = "done"
    /\ ret = FALSE
    /\ page # NoPage
    /\ TargetTime # None
    /\ Candidates = {}
    /\ \E i \in Courts : ~schedule[i].is_singles /\ FreeAtTarget(schedule[i])
    /\ browser.clicked = << >>

\* the unparseable target time
C5_WitnessUnparsed ==
    /\ pc = "done"
    /\ ret = FALSE
    /\ page # NoPage
    /\ TargetTime = None
    /\ \E i \in Courts : schedule[i].is_singles /\ schedule[i].slots # << >>

\* the day the Reserve button belongs to: the day of the page shown
BookedDay == today + browser.day

\* Singles hours: a weekday from 4:30 PM to 9:00 PM, a weekend day from
\* 10:30 AM to 3:00 PM
SinglesHours(day, t) ==
    /\ t # None
    /\ \/ Weekday(day) \in 0..4 /\ 16 * 60 + 30 <= t /\ t < 21 * 60
       \/ Weekday(day) \in 5..6 /\ 10 * 60 + 30 <= t /\ t < 15 * 60

TypeChosen == pc \in {"select_type", "fill_form", "submit"}
              \/ (pc = "done" /\ book.reservation_type # "")

\* C7: the reservation type book_court chose is 'singles' exactly when the
\* booking falls in the singles hours of its day, 'solo practice' otherwise,
\* and once the form is filled an additional player is entered exactly for
\* 'singles'.
C7_ReservationType ==
    /\ TypeChosen =>
          /\ book.reservation_type \in {"singles", "solo practice"}
          /\ (book.reservation_type = "singles") <=> SinglesHours(BookedDay, TargetTime)
    /\ pc = "submit" => (form.player <=> book.reservation_type = "singles")

\* the same with the day book_court derives from the date string in place of
\* the day of the page, and the decision to enter a player in place of the
\* entry
C7_TypeForDerivedDate ==
    TypeChosen =>
        /\ (book.reservation_type = "singles")
              <=> SinglesHours(BookingDate(target_date_str, today), TargetTime)
        /\ book.needs_additional_player <=> book.reservation_type = "singles"
        /\ form.player => book.reservation_type = "singles"

\* ------------------------------------------- properties: the run of the booker
\* the steps whose False ends run
Gating == {"login", "navigate_to_bookings", "find_and_click_time_slot",
           "fill_booking_form", "submit_booking_form"}

\* C8: the methods run has called are the first ones of the fixed order
\* setup_driver, login, navigate_to_bookings, navigate_forward_days,
\* find_and_click_time_slot, fill_booking_form, submit_booking_form,
\* verify_booking, each once; every gating step before the last one called
\* returned True; a step that did not return True is the last one and run
\* then returns False; run returns True only after verify_booking returned
\* True.
C8_FixedOrderGated ==
    /\ Len(steps) <= Len(Order)
    /\ \A i \in 1..Len(steps) : steps[i].step = Order[i]
    /\ \A i \in 1..Len(steps) :
          (i < Len(steps) /\ steps[i].step \in Gating) => steps[i].result = "True"
    /\ \A i \in 1..Len(steps) :
          steps[i].result \in {"False", "raised"} =>
              i = Len(steps) /\ pc = "done" /\ ret = FALSE
    /\ (pc = "done" /\ ret = TRUE) =>
          /\ Len(steps) = Len(Order)
          /\ steps[Len(steps)].result = "True"

\* a run stopped by find_and_click_time_slot: five steps, no form, no Save
C8_Witness ==
    /\ pc = "done"
    /\ ret = FALSE
    /\ Len(steps) = 5
    /\ steps[5] = [step |-> "find_and_click_time_slot", result |-> "False"]
    /\ browser.saves = 0

\* a run that went through all eight steps and returned True
C8_WitnessAllSteps ==
    /\ pc = "done"
    /\ ret = TRUE
    /\ Len(steps) = 8
    /\ browser.saves = 1

\* the time a text shows, as minutes after midnight
ShownTimes(text) == { parse_time(<<text[i]>>) : i \in 1..Len(text) } \ {None}

Verified ==
    /\ Len(steps) = Len(Order)
    /\ steps[Len(steps)] = [step |-> "verify_booking", result |-> "True"]

\* C9: verify_booking returns True only if the source of the refreshed page
\* holds the booking time of the booker.
C9_VerifiedOnlyWithBookingTime ==
    Verified => parse_time(booker.booking_time) \in ShownTimes(page_source.times)

\* C10: the grid cell or Reserve button that find_and_click_time_slot clicks
\* has a text that holds the booking time of the booker.
C10_ClickedCellHoldsBookingTime ==
    \A i \in 1..Len(browser.clicked) :
        parse_time(booker.booking_time) \in ShownTimes(browser.clicked[i].text)

\* ----------------------------------------- properties: the additional player
Constructed == program = "github_actions_court_booking" /\ args # NoArgs

\* C11: --no-player gives no player whatever --player and
\* ESC_ADDITIONAL_PLAYER are; otherwise a given --player is the player, an
\* empty one meaning no player; otherwise ESC_ADDITIONAL_PLAYER is the
\* player when it is set, and 'Scott Jackson' when it is not.
C11_PlayerPrecedence ==
    Constructed =>
        /\ args.no_player => booker.additional_player = ""
        /\ (~args.no_player /\ args.player # NoArg)
              => booker.additional_player = args.player
        /\ (~args.no_player /\ args.player = NoArg /\ args.env_player # NoArg)
              => booker.additional_player = args.env_player
        /\ (~args.no_player /\ args.player = NoArg /\ args.env_player = NoArg)
              => booker.additional_player = "Scott Jackson"

\* --player is given and ESC_ADDITIONAL_PLAYER is set to another name
C11_Witness ==
    /\ Constructed
    /\ ~args.no_player
    /\ args.player = "John Doe"
    /\ args.env_player = "Pat Lee"
    /\ booker.additional_player = "John Doe"

\* --no-player next to --player and ESC_ADDITIONAL_PLAYER
C11_WitnessNoPlayer ==
    /\ Constructed
    /\ args.no_player
    /\ args.player = "John Doe"
    /\ args.env_player = "Pat Lee"
    /\ booker.additional_player = ""

\* ------------------------------------------- properties: type and player
\* fill_booking_form of the booker returned True
FormFilled ==
    /\ program = "github_actions_court_booking"
    /\ Len(steps) >= 6
    /\ steps[6] = [step |-> "fill_booking_form", result |-> "True"]

\* the type verify_booking looks for
ExpectedType == IF booker.additional_player = "" THEN "solo practice" ELSE "singles"

\* C12: once the form is filled, the type shown in the form is the type
\* verify_booking expects; with an additional player configured it is
\* 'singles' and the player is typed into the form, with none configured it
\* is 'solo practice' and no player is typed.
C12_TypeAndPlayerAgree ==
    FormFilled =>
        /\ form.type_shown = ExpectedType
        /\ booker.additional_player # "" => (form.type_shown = "singles" /\ form.player)
        /\ booker.additional_player = ""
              => (form.type_shown = "solo practice" /\ ~form.player)

\* what holds of the filled form: the type agrees, and a player is typed
\* only when one is configured
C12_TypeAgrees ==
    FormFilled =>
        /\ form.type_shown = ExpectedType
        /\ form.player => booker.additional_player # ""


\* ------------------------------------------------- properties: the commands
\* the process has ended and its exit status is known
Exited == exit_code # None

\* the booking function of the command returned True
ReturnedTrue == pc = "done" /\ ret = TRUE

\* C13 as stated: github_actions_court_booking.main and the
\* smart_court_booking command exit with 0 exactly when the booking function
\* returned True and with 1 in every other case
C13_Original ==
    (Exited /\ program \in {"github_actions_court_booking", "smart_court_booking"})
        => exit_code = (IF ReturnedTrue THEN 0 ELSE 1)

\* C13, for a command line that parse_args accepts: the exit status is 0
\* exactly when the booking function returned True and 1 otherwise, a
\* constructor that raised for missing credentials included; the
\* smart_court_booking command does so for every command line
C13_ExitStatus ==
    (Exited /\ \/ program = "github_actions_court_booking" /\ args # NoArgs
               \/ program = "smart_court_booking")
        => exit_code = (IF ReturnedTrue THEN 0 ELSE 1)

C13_Witness ==
    /\ program = "github_actions_court_booking"
    /\ args # NoArgs
    /\ pc = "fatal"
    /\ exit_code = 1

C13_WitnessTrue ==
    /\ program \in {"github_actions_court_booking", "smart_court_booking"}
    /\ ReturnedTrue
    /\ exit_code = 0


\* ESC_USERNAME or ESC_PASSWORD is unset or empty
NoCredentials == env.username = "" \/ env.password = ""

\* C14: without ESC_USERNAME or ESC_PASSWORD no browser is started and no
\* page is requested: the constructors of the bookers raise before
\* setup_driver is called, and smart_book_court returns False before it
\* creates the driver
C14_NoCredentialsNoBrowser ==
    NoCredentials =>
        /\ browser = NoBrowser
        /\ steps = << >>
        /\ page = NoPage
        /\ IF program = "smart_court_booking"
           THEN pc \in {"__main__", "exited", "smart_book_court", "done"}
                /\ (pc = "done" => ret = FALSE)
           ELSE pc \in {"main", "fixed.main", "exited", "fatal"}

C14_Witness ==
    /\ NoCredentials
    /\ program = "smart_court_booking"
    /\ pc = "done"
    /\ ret = FALSE

C14_WitnessConstructor ==
    /\ NoCredentials
    /\ program = "fixed_court_booking"
    /\ pc = "fatal"


\* ------------------------------------------------- properties: book_court
\* C15: book_court returns True only if the Save button was displayed,
\* enabled and clicked and afterwards no modal or dialog is displayed
C15_TrueOnlyWhenModalClosed ==
    (program = "smart_court_booking" /\ pc = "done" /\ ret = TRUE)
        => (browser.saves > 0 /\ ~form.open)

\* what does hold: True is returned only after Save was clicked
C15_TrueOnlyAfterSave ==
    (program = "smart_court_booking" /\ pc = "done" /\ ret = TRUE)
        => browser.saves > 0


\* ------------------------------------------- properties: the type is checked
\* the reservation type the run intends to book
IntendedType ==
    IF program = "smart_court_booking" THEN book.reservation_type
    ELSE IF program = "github_actions_court_booking" THEN ExpectedType
    ELSE "singles"

\* a displayed dropdown was read and showed the intended type
TypeObserved == form.type_shown = IntendedType

\* the dropdowns were read and none showed the intended type
TypeCheckFailed == form.type_shown # "" /\ form.type_shown # IntendedType

\* C16: in smart_book_court, GitHubActionsCourtBooker.run and
\* FixedCourtBooker.run a step clicks Save only if earlier in the run a
\* displayed dropdown was observed to show the intended reservation type,
\* and a run whose check failed returns False without any click on Save
C16_SaveOnlyAfterTypeObserved ==
    /\ [][browser'.saves > browser.saves => TypeObserved]_vars
    /\ [](TypeCheckFailed => (pc = "done" /\ ret = FALSE /\ browser.saves = 0))

C16_Witness ==
    /\ program = "smart_court_booking"
    /\ browser.saves > 0
    /\ TypeObserved

C16_WitnessRun ==
    /\ program = "github_actions_court_booking"
    /\ browser.saves > 0
    /\ TypeObserved

C16_WitnessFixed ==
    /\ program = "fixed_court_booking"
    /\ browser.saves > 0
    /\ TypeObserved

C16_WitnessFailed ==
    /\ program = "fixed_court_booking"
    /\ TypeCheckFailed
    /\ pc = "done"


\* ------------------------------------------------ properties: the duration
\* the minutes an option of the Duration dropdown stands for
OptionMinutes(option) ==
    IF option = "hour" THEN 60 ELSE IF option = "45" THEN 45 ELSE 30

\* C17: in smart_book_court the duration option asked for in the form,
\* chosen from min(requested duration, best_duration), is never longer than
\* the best_duration find_best_court reported
C17_DurationWithinBest ==
    (program = "smart_court_booking" /\ book.target_duration # "")
        => OptionMinutes(book.target_duration) <= best.duration

\* what does hold: the option is the one for min(requested, best_duration)
C17_DurationFromMin ==
    (program = "smart_court_booking" /\ book.target_duration # "")
        => book.target_duration = TargetDuration(Min(duration_minutes, best.duration))


\* ---------------------------------------------------- properties: the date
\* C18: for every target_date_str ('today', 'tomorrow', a digit string, a
\* 'YYYY-MM-DD' string) the weekday book_court uses to choose the
\* reservation type is the weekday of the page navigated to
C18_WeekdayOfPage ==
    TypeChosen => Weekday(book.booking_date) = Weekday(BookedDay)

\* what does hold: for 'today' the two days are the same
C18_WeekdayOfToday ==
    (TypeChosen /\ target_date_str.kind = "today") => book.booking_date = BookedDay


\* ------------------------------------------- properties: one court a slot
\* the courts whose slot list holds the container / the button
CourtsBooked(div) == { n \in 1..Len(schedule) : TimesBooked(schedule[n], div) > 0 }

CourtsAvailable(button) ==
    { n \in 1..Len(schedule) : TimesAvailable(schedule[n], button) > 0 }

\* the header texts are distinct and no two columns touch
ColumnsApart ==
    \A k, n \in 2..Len(page.ths) :
        k < n => /\ page.ths[k].text # page.ths[n].text
                 /\ page.ths[k].x + page.ths[k].width < page.ths[n].x

\* C19: every reservation container and every Reserve button is in the slot
\* list of at most one court, for every layout of the page, columns that
\* touch (x_end of one equal to x_start of the next) included
C19_AtMostOneCourt ==
    Extracted =>
        /\ \A d \in Divs : Cardinality(CourtsBooked(d)) <= 1
        /\ \A b \in Buttons : Cardinality(CourtsAvailable(b)) <= 1

\* what does hold: at most one court when the columns are apart and their
\* header texts differ
C19_AtMostOneCourtApart ==
    (Extracted /\ ColumnsApart) =>
        /\ \A d \in Divs : Cardinality(CourtsBooked(d)) <= 1
        /\ \A b \in Buttons : Cardinality(CourtsAvailable(b)) <= 1

====
